---- MODULE Spec2Model ----
(***************************************************************************)
(* Smart Splitter (src/app.py): the settlement engine calculate_split and  *)
(* the event recording form.                                               *)
(*                                                                         *)
(* Arithmetic.  The program computes in binary floating point.  The model  *)
(* computes in fixed point: a float x is the integer x * One.  All inputs  *)
(* are chosen so that every product and quotient the program forms is an   *)
(* exact multiple of 1/One (rates 0.5, 1, 2; at most three participants),  *)
(* so the model follows the real-number value of every float; rounding     *)
(* residue of the last binary digit is not modelled.                       *)
(*                                                                         *)
(* Lists.  event['participants'] holds distinct names and is modelled as a *)
(* set, visited in name order.  sort_values keeps rows with equal keys in  *)
(* the order of the summary, which groupby sorts by name.                  *)
(***************************************************************************)
EXTENDS Integers, Sequences, FiniteSets, TLC

VARIABLES
    \* ---- calculate_split(data, rates) ----
    data,             \* argument: the list of events
    rates,            \* argument: the rate table (currency -> rate)
    idx,              \* number of events the for-loop has consumed
    rate_multiplier,  \* local of the last non-void event
    transactions,     \* local list of contributions
    summary,          \* local / returned summary (None or rows)
    creditors_list,   \* work-list of (person, remaining credit)
    debtors_list,     \* work-list of (person, remaining debt)
    payments,         \* list of recorded transfers
    iters,            \* number of iterations of the while-loop so far
    pc,               \* position inside calculate_split
    \* ---- recording form (Streamlit session) ----
    all_people,       \* st.session_state.all_people
    amount_input,     \* st.session_state.amount_input
    participants_select, \* st.session_state.participants_select
    paid_widget,      \* st.session_state["paid_<p>"] for the rendered inputs
    paid_amounts,     \* st.session_state.paid_amounts
    events,           \* st.session_state.events
    message,          \* what the last run of the register handler displayed
    \* ---- get_exchange_rate() ----
    clock,            \* datetime.now(pytz.utc), in minutes
    rate_cache,       \* st.session_state.rate_cache (absent or rates, timestamp)
    response,         \* what the provider answered to the last call, if asked
    returned,         \* the table the last call returned
    last_fetch,       \* history: table and time of the last successful fetch
    call_parity       \* history: flips at every call of get_exchange_rate

engineVars == <<data, rates, idx, rate_multiplier, transactions, summary,
                creditors_list, debtors_list, payments, iters, pc>>
formVars == <<all_people, amount_input, participants_select, paid_widget,
              paid_amounts, events, message>>
rateVars == <<clock, rate_cache, response, returned, last_fetch, call_parity>>
vars == <<data, rates, idx, rate_multiplier, transactions, summary,
          creditors_list, debtors_list, payments, iters, pc,
          all_people, amount_input, participants_select, paid_widget,
          paid_amounts, events, message,
          clock, rate_cache, response, returned, last_fetch, call_parity>>

(***************************************************************************)
(* Bounds of the model.                                                    *)
(***************************************************************************)
MaxEvents == 2    \* longest general event list
MaxAmount == 1    \* largest amount of a general event
MaxOwn == 2       \* amount of each one-person event
MaxIters == 6     \* cap on the while-loop counter (never reached by the code)
MaxFormAmount == 2 \* largest value typed into a number input of the form
MaxSaved == 2     \* longest session event list explored
MaxClock == 65    \* last minute of the clock

(***************************************************************************)
(* Fixed point.                                                            *)
(***************************************************************************)
One == 12         \* the float 1.0
TolDen == 100     \* the tolerance 0.01 is One / TolDen

ToFloat(n) == n * One
FMul(x, y) == (x * y) \div One
FDiv(x, y) == (x * One) \div y
Abs(x) == IF x < 0 THEN 0 - x ELSE x
Min(x, y) == IF x <= y THEN x ELSE y
Max(x, y) == IF x >= y THEN x ELSE y
GtTol(x) == x * TolDen > One

\* round(x, 0): to the nearest whole unit, halves to the even neighbour
Round0(x) ==
    LET q == x \div One
        r == x % One
    IN  IF 2 * r < One THEN q * One
        ELSE IF 2 * r > One THEN (q + 1) * One
        ELSE IF q % 2 = 0 THEN q * One ELSE (q + 1) * One

(***************************************************************************)
(* People, in the order groupby('person') sorts them.                      *)
(***************************************************************************)
PersonOrder == <<"A", "B", "C", "D">>

EmptyMap == [p \in {} |-> 0]
None == [absent |-> TRUE, rows |-> <<>>]
Frame(rows) == [absent |-> FALSE, rows |-> rows]

(***************************************************************************)
(* calculate_split, lines 212-237: contributions of one event.             *)
(***************************************************************************)
IsVoidNoParticipants(event) ==
    Cardinality(event.participants) = 0

IsVoid(event) ==
    Cardinality(event.participants) = 0 \/ ToFloat(event.amount) <= 0

RateMultiplierSwapped(currency, table) ==
    IF currency \notin DOMAIN table \/ table[currency] = 0
    THEN One
    ELSE table[currency]

RateMultiplier(currency, table) ==
    IF currency \notin DOMAIN table \/ table[currency] = 0
    THEN One
    ELSE FDiv(One, table[currency])

PaidGet(event, person) ==
    IF person \in DOMAIN event.paid_by THEN event.paid_by[person] ELSE 0

\* the participants of an event as a list, in PersonOrder
RECURSIVE ParticipantList(_, _)
ParticipantList(set, i) ==
    IF i > Len(PersonOrder) THEN <<>>
    ELSE IF PersonOrder[i] \in set
         THEN <<PersonOrder[i]>> \o ParticipantList(set, i + 1)
         ELSE ParticipantList(set, i + 1)

EventContributions(event, table) ==
    LET mult == RateMultiplier(event.currency, table)
        converted_amount_jpy == FMul(ToFloat(event.amount), mult)
        per_person_share_jpy ==
            converted_amount_jpy \div Cardinality(event.participants)
        people == ParticipantList(event.participants, 1)
    IN  [k \in 1..Len(people) |->
            [person |-> people[k],
             amount_paid |-> FMul(ToFloat(PaidGet(event, people[k])), mult),
             amount_owed |-> per_person_share_jpy]]

(***************************************************************************)
(* Lines 242-249: groupby('person').agg(sum) and net_balance.              *)
(***************************************************************************)
RECURSIVE SumField(_, _, _)
SumField(trans, person, paid) ==
    IF trans = <<>> THEN 0
    ELSE (IF Head(trans).person = person
          THEN (IF paid THEN Head(trans).amount_paid
                        ELSE Head(trans).amount_owed)
          ELSE 0) + SumField(Tail(trans), person, paid)

RECURSIVE SummaryRows(_, _)
SummaryRows(trans, i) ==
    IF i > Len(PersonOrder) THEN <<>>
    ELSE LET p == PersonOrder[i]
         IN  IF \E k \in 1..Len(trans) : trans[k].person = p
             THEN <<[person |-> p,
                     total_paid |-> SumField(trans, p, TRUE),
                     total_owed |-> SumField(trans, p, FALSE),
                     net_balance |-> SumField(trans, p, TRUE)
                                     - SumField(trans, p, FALSE)]>>
                  \o SummaryRows(trans, i + 1)
             ELSE SummaryRows(trans, i + 1)

Summarize(trans) == Frame(SummaryRows(trans, 1))

(***************************************************************************)
(* Lines 251-256: the two sorted work-lists.                               *)
(***************************************************************************)
RECURSIVE SelectRows(_, _)
SelectRows(rows, positive) ==
    IF rows = <<>> THEN <<>>
    ELSE LET keep == IF positive THEN Head(rows).net_balance > 0
                                 ELSE Head(rows).net_balance < 0
         IN  (IF keep THEN <<Head(rows)>> ELSE <<>>)
             \o SelectRows(Tail(rows), positive)

RemoveAt(s, i) == [k \in 1..(Len(s) - 1) |-> IF k < i THEN s[k] ELSE s[k + 1]]

\* sort_values: ties keep the order of the summary (stable for short frames)
RECURSIVE SortRows(_, _)
SortRows(rows, ascending) ==
    IF rows = <<>> THEN <<>>
    ELSE LET first == CHOOSE i \in 1..Len(rows) :
                        /\ \A j \in 1..Len(rows) :
                              IF ascending
                              THEN rows[i].net_balance <= rows[j].net_balance
                              ELSE rows[i].net_balance >= rows[j].net_balance
                        /\ \A j \in 1..(i - 1) :
                              rows[j].net_balance # rows[i].net_balance
         IN  <<rows[first]>> \o SortRows(RemoveAt(rows, first), ascending)

CreditorsAscending(rows) ==
    LET creditors == SortRows(SelectRows(rows, TRUE), TRUE)
    IN  [k \in 1..Len(creditors) |->
            [person |-> creditors[k].person,
             amount |-> Round0(creditors[k].net_balance)]]

CreditorsList(rows) ==
    LET creditors == SortRows(SelectRows(rows, TRUE), FALSE)
    IN  [k \in 1..Len(creditors) |->
            [person |-> creditors[k].person,
             amount |-> Round0(creditors[k].net_balance)]]

DebtorsList(rows) ==
    LET debtors == SortRows(SelectRows(rows, FALSE), TRUE)
    IN  [k \in 1..Len(debtors) |->
            [person |-> debtors[k].person,
             amount |-> Round0(Abs(debtors[k].net_balance))]]

(***************************************************************************)
(* Lines 259-277: one iteration of the matching loop.                      *)
(***************************************************************************)
PaymentAmountMax(creditor_amount, debtor_amount) ==
    Max(creditor_amount, debtor_amount)

PaymentAmount(creditor_amount, debtor_amount) ==
    Min(creditor_amount, debtor_amount)

ReinsertAlways(remaining) == remaining >= 0

Reinsert(remaining) == GtTol(remaining)

MatchIter(cl, dl, pay) ==
    LET creditor == Head(cl)
        debtor == Head(dl)
        payment_amount == PaymentAmount(creditor.amount, debtor.amount)
        creditor_remaining == creditor.amount - payment_amount
        debtor_remaining == debtor.amount - payment_amount
    IN  [cl |-> (IF Reinsert(creditor_remaining)
                 THEN <<[person |-> creditor.person,
                         amount |-> creditor_remaining]>>
                 ELSE <<>>) \o Tail(cl),
         dl |-> (IF Reinsert(debtor_remaining)
                 THEN <<[person |-> debtor.person,
                         amount |-> debtor_remaining]>>
                 ELSE <<>>) \o Tail(dl),
         pay |-> Append(pay, [from |-> debtor.person,
                              to |-> creditor.person,
                              amount |-> payment_amount])]

(***************************************************************************)
(* calculate_split as a function of its arguments.                         *)
(***************************************************************************)
RECURSIVE Transactions(_, _)
Transactions(list, table) ==
    IF list = <<>> THEN <<>>
    ELSE (IF IsVoid(Head(list)) THEN <<>>
          ELSE EventContributions(Head(list), table))
         \o Transactions(Tail(list), table)

RECURSIVE MatchLoop(_, _, _, _)
MatchLoop(cl, dl, pay, fuel) ==
    IF cl = <<>> \/ dl = <<>> \/ fuel = 0 THEN pay
    ELSE LET next == MatchIter(cl, dl, pay)
         IN  MatchLoop(next.cl, next.dl, next.pay, fuel - 1)

CalculateSplit(list, table) ==
    LET trans == Transactions(list, table)
    IN  IF trans = <<>> THEN <<None, <<>>>>
        ELSE LET s == Summarize(trans)
             IN  <<s, MatchLoop(CreditorsList(s.rows), DebtorsList(s.rows),
                                <<>>, MaxIters)>>

(***************************************************************************)
(* Inputs of calculate_split.                                              *)
(***************************************************************************)
RateTables ==
    { [c \in {"JPY", "USD", "KRW"} |->
          IF c = "JPY" THEN One ELSE IF c = "USD" THEN One \div 2 ELSE 0],
      [c \in {"JPY", "USD"} |-> IF c = "JPY" THEN One ELSE 2 * One] }

Currencies == {"JPY", "USD", "KRW"}

\* general events: void and non-void, one to three participants
EventUniverse ==
    [amount : (0 - 1)..MaxAmount,
     currency : Currencies,
     participants : {{}, {"A", "B"}, {"A", "B", "C"}},
     paid_by : {EmptyMap, [p \in {"A"} |-> MaxAmount]}]

GeneralLists == UNION {[1..n -> EventUniverse] : n \in 0..MaxEvents}

\* one event per person: person p alone owes MaxOwn and has paid x[p]
OwnEvent(p, x) ==
    [amount |-> MaxOwn, currency |-> "USD", participants |-> {p},
     paid_by |-> [q \in {p} |-> x]]

OwnLists ==
    {[i \in 1..Len(PersonOrder) |-> OwnEvent(PersonOrder[i], x[i])] :
        x \in [1..Len(PersonOrder) -> 0..(2 * MaxOwn)]}

(***************************************************************************)
(* calculate_split as a state machine.                                     *)
(***************************************************************************)
(***************************************************************************)
(* get_exchange_rate, lines 174-206: the session's rate cache.             *)
(***************************************************************************)
CacheMinutes == 30

Fallback == [c \in {"JPY"} |-> One]
NoTable == [c \in {"none"} |-> 0]
NoCache == [present |-> FALSE, rates |-> NoTable, timestamp |-> 0]
NotAsked == [kind |-> "none", rates |-> NoTable]

RatesIdle ==
    /\ clock = 0
    /\ rate_cache = NoCache
    /\ response = NotAsked
    /\ returned = NoTable
    /\ last_fetch = NoCache
    /\ call_parity = 0

FormIdle ==
    /\ all_people = {}
    /\ amount_input = 1
    /\ participants_select = {}
    /\ paid_widget = EmptyMap
    /\ paid_amounts = EmptyMap
    /\ events = <<>>
    /\ message = "none"

Init ==
    /\ data \in GeneralLists \cup OwnLists
    /\ rates \in RateTables
    /\ idx = 0
    /\ rate_multiplier = One
    /\ transactions = <<>>
    /\ summary = None
    /\ creditors_list = <<>>
    /\ debtors_list = <<>>
    /\ payments = <<>>
    /\ iters = 0
    /\ pc = "events"
    /\ FormIdle
    /\ RatesIdle

\* lines 212-217: a void event is skipped
SkipEvent ==
    /\ pc = "events"
    /\ idx < Len(data)
    /\ IsVoid(data[idx + 1])
    /\ idx' = idx + 1
    /\ UNCHANGED <<data, rates, rate_multiplier, transactions, summary,
                   creditors_list, debtors_list, payments, iters, pc>>
    /\ UNCHANGED formVars
    /\ UNCHANGED rateVars

\* lines 212-237: a non-void event appends one contribution per participant
ProcessEvent ==
    /\ pc = "events"
    /\ idx < Len(data)
    /\ ~IsVoid(data[idx + 1])
    /\ idx' = idx + 1
    /\ rate_multiplier' = RateMultiplier(data[idx + 1].currency, rates)
    /\ transactions' = transactions \o EventContributions(data[idx + 1], rates)
    /\ UNCHANGED <<data, rates, summary, creditors_list, debtors_list,
                   payments, iters, pc>>
    /\ UNCHANGED formVars
    /\ UNCHANGED rateVars

\* lines 239-240: no contribution at all
ReturnNoData ==
    /\ pc = "events"
    /\ idx = Len(data)
    /\ transactions = <<>>
    /\ summary' = None
    /\ payments' = <<>>
    /\ pc' = "done"
    /\ UNCHANGED <<data, rates, idx, rate_multiplier, transactions,
                   creditors_list, debtors_list, iters>>
    /\ UNCHANGED formVars
    /\ UNCHANGED rateVars

\* lines 242-256: the summary and the two work-lists
Aggregate ==
    /\ pc = "events"
    /\ idx = Len(data)
    /\ transactions # <<>>
    /\ summary' = Summarize(transactions)
    /\ creditors_list' = CreditorsList(summary'.rows)
    /\ debtors_list' = DebtorsList(summary'.rows)
    /\ payments' = <<>>
    /\ pc' = "match"
    /\ UNCHANGED <<data, rates, idx, rate_multiplier, transactions, iters>>
    /\ UNCHANGED formVars
    /\ UNCHANGED rateVars

\* lines 258-277: one iteration of the while-loop
MatchStep ==
    /\ pc = "match"
    /\ creditors_list # <<>>
    /\ debtors_list # <<>>
    /\ iters < MaxIters
    /\ LET next == MatchIter(creditors_list, debtors_list, payments)
       IN  /\ creditors_list' = next.cl
           /\ debtors_list' = next.dl
           /\ payments' = next.pay
    /\ iters' = iters + 1
    /\ UNCHANGED <<data, rates, idx, rate_multiplier, transactions, summary,
                   pc>>
    /\ UNCHANGED formVars
    /\ UNCHANGED rateVars

\* lines 258, 279: the loop condition fails, the function returns
Return ==
    /\ pc = "match"
    /\ (creditors_list = <<>> \/ debtors_list = <<>>)
    /\ pc' = "done"
    /\ UNCHANGED <<data, rates, idx, rate_multiplier, transactions, summary,
                   creditors_list, debtors_list, payments, iters>>
    /\ UNCHANGED formVars
    /\ UNCHANGED rateVars

Next ==
    \/ SkipEvent
    \/ ProcessEvent
    \/ ReturnNoData
    \/ Aggregate
    \/ MatchStep
    \/ Return

Spec == Init /\ [][Next]_vars

(***************************************************************************)
(* The recording form, lines 327-334, 423-495 and 566-575.  Every user     *)
(* interaction reruns the script; an action is the interaction together    *)
(* with the rerun it triggers.  The currency select box is left at its     *)
(* default, and the event name is not modelled.                            *)
(***************************************************************************)
FormPeople == {"A", "B"}

PaidAmountsGet(amounts, person) ==
    IF person \in DOMAIN amounts THEN amounts[person] ELSE 0

\* lines 444-459: the number inputs the script renders for the selected
\* participants; an input that was not on the page starts from paid_amounts
Render(widget, selected, amounts) ==
    [p \in selected |->
        IF p \in DOMAIN widget THEN widget[p]
        ELSE PaidAmountsGet(amounts, p)]

RECURSIVE SumOver(_, _)
SumOver(f, set) ==
    IF set = {} THEN 0
    ELSE LET p == CHOOSE q \in set : TRUE
         IN  f[p] + SumOver(f, set \ {p})

\* lines 439-461
PaidBy == [p \in participants_select |-> paid_widget[p]]
TotalPaid == SumOver(PaidBy, participants_select)

IsValidPaidAmountOnly == amount_input > 0

\* line 477
IsValidPaid == (TotalPaid = amount_input) /\ (amount_input > 0)

\* lines 481-487
EventData ==
    [amount |-> amount_input, currency |-> "JPY",
     participants |-> participants_select, paid_by |-> PaidBy]

InitForm ==
    /\ data = <<>>
    /\ rates = [c \in {"JPY"} |-> One]
    /\ idx = 0
    /\ rate_multiplier = One
    /\ transactions = <<>>
    /\ summary = None
    /\ creditors_list = <<>>
    /\ debtors_list = <<>>
    /\ payments = <<>>
    /\ iters = 0
    /\ pc = "idle"
    /\ FormIdle
    /\ RatesIdle

\* lines 327-334: a new member; the options of the multiselect change, so
\* the selection is either kept or reset by the framework
AddMember ==
    \E person \in FormPeople :
        /\ person \notin all_people
        /\ all_people' = all_people \cup {person}
        /\ participants_select' \in {participants_select, {}}
        /\ paid_widget' = Render(paid_widget, participants_select',
                                 paid_amounts)
        /\ message' = "none"
        /\ UNCHANGED <<amount_input, paid_amounts, events>>
        /\ UNCHANGED engineVars
        /\ UNCHANGED rateVars

\* lines 423-430: the amount input (min_value = 1)
SetAmount ==
    \E value \in 1..MaxFormAmount :
        /\ value # amount_input
        /\ amount_input' = value
        /\ message' = "none"
        /\ UNCHANGED <<all_people, participants_select, paid_widget,
                       paid_amounts, events>>
        /\ UNCHANGED engineVars
        /\ UNCHANGED rateVars

\* line 432: the participants multiselect
SetParticipants ==
    \E selected \in SUBSET all_people :
        /\ selected # participants_select
        /\ participants_select' = selected
        /\ paid_widget' = Render(paid_widget, selected, paid_amounts)
        /\ message' = "none"
        /\ UNCHANGED <<all_people, amount_input, paid_amounts, events>>
        /\ UNCHANGED engineVars
        /\ UNCHANGED rateVars

\* lines 445-459: a paid input changes and its on_change callback runs
SetPaid ==
    \E person \in participants_select, value \in 0..MaxFormAmount :
        /\ value # paid_widget[person]
        /\ paid_widget' = [paid_widget EXCEPT ![person] = value]
        /\ paid_amounts' =
              [p \in DOMAIN paid_amounts \cup {person} |->
                  IF p = person THEN value ELSE paid_amounts[p]]
        /\ message' = "none"
        /\ UNCHANGED <<all_people, amount_input, participants_select, events>>
        /\ UNCHANGED engineVars
        /\ UNCHANGED rateVars

\* lines 479-493: the register button, valid form.  After the rerun the
\* paid inputs are rendered with the new default 0; the framework either
\* keeps their values or restarts them from that default.
RegisterSave ==
    /\ IsValidPaid
    /\ Len(events) < MaxSaved
    /\ events' = Append(events, EventData)
    /\ paid_amounts' = EmptyMap
    /\ paid_widget' \in {paid_widget, [p \in participants_select |-> 0]}
    /\ message' = "success"
    /\ UNCHANGED <<all_people, amount_input, participants_select>>
    /\ UNCHANGED engineVars
    /\ UNCHANGED rateVars

\* lines 479-480, 494-495: the register button, invalid form
RegisterReject ==
    /\ ~IsValidPaid
    /\ message' = "error"
    /\ UNCHANGED <<all_people, amount_input, participants_select,
                   paid_widget, paid_amounts, events>>
    /\ UNCHANGED engineVars
    /\ UNCHANGED rateVars

\* lines 566-575: the reset button
ResetGroup ==
    /\ events' = <<>>
    /\ all_people' = {}
    /\ participants_select' = {}
    /\ paid_widget' = EmptyMap
    /\ message' = "none"
    /\ UNCHANGED <<amount_input, paid_amounts>>
    /\ UNCHANGED engineVars
    /\ UNCHANGED rateVars

NextForm ==
    \/ AddMember
    \/ SetAmount
    \/ SetParticipants
    \/ SetPaid
    \/ RegisterSave
    \/ RegisterReject
    \/ ResetGroup

SpecForm == InitForm /\ [][NextForm]_vars

(***************************************************************************)
(* get_exchange_rate as a state machine.  A call is one step: it reads the *)
(* clock once (line 176), and the provider's answer is an input of the     *)
(* call.  A request that raises RequestException (connection error, HTTP   *)
(* error status) is the answer "error"; a body without rates is the answer *)
(* "ok" with an empty table.                                               *)
(***************************************************************************)
ProviderTables == RateTables
TickSteps == {1, CacheMinutes - 1}

CacheFreshInclusive(now, cache) ==
    cache.present /\ now <= cache.timestamp + CacheMinutes

\* lines 179-181
CacheFresh(now, cache) ==
    cache.present /\ now < cache.timestamp + CacheMinutes

InitRates ==
    /\ data = <<>>
    /\ rates = Fallback
    /\ idx = 0
    /\ rate_multiplier = One
    /\ transactions = <<>>
    /\ summary = None
    /\ creditors_list = <<>>
    /\ debtors_list = <<>>
    /\ payments = <<>>
    /\ iters = 0
    /\ pc = "idle"
    /\ FormIdle
    /\ RatesIdle

\* time passes between two runs of the script
Tick ==
    \E d \in TickSteps :
        /\ clock + d <= MaxClock
        /\ clock' = clock + d
        /\ UNCHANGED <<rate_cache, response, returned, last_fetch,
                       call_parity>>
        /\ UNCHANGED engineVars
        /\ UNCHANGED formVars

\* lines 179-184: the cached table is younger than 30 minutes
CacheHit ==
    /\ CacheFresh(clock, rate_cache)
    /\ returned' = rate_cache.rates
    /\ response' = NotAsked
    /\ call_parity' = 1 - call_parity
    /\ UNCHANGED <<clock, rate_cache, last_fetch>>
    /\ UNCHANGED engineVars
    /\ UNCHANGED formVars

\* lines 186-202: the provider answers with rates
FetchStore ==
    \E table \in ProviderTables :
        /\ ~CacheFresh(clock, rate_cache)
        /\ response' = [kind |-> "ok", rates |-> table]
        /\ rate_cache' = [present |-> TRUE, rates |-> table,
                          timestamp |-> clock]
        /\ last_fetch' = [present |-> TRUE, rates |-> table,
                          timestamp |-> clock]
        /\ returned' = table
        /\ call_parity' = 1 - call_parity
        /\ UNCHANGED clock
        /\ UNCHANGED engineVars
        /\ UNCHANGED formVars

\* lines 186-195: the provider answers without rates
FetchEmpty ==
    /\ ~CacheFresh(clock, rate_cache)
    /\ response' = [kind |-> "ok", rates |-> EmptyMap]
    /\ returned' = Fallback
    /\ call_parity' = 1 - call_parity
    /\ UNCHANGED <<clock, rate_cache, last_fetch>>
    /\ UNCHANGED engineVars
    /\ UNCHANGED formVars

\* lines 186-188, 204-206: the request raises RequestException
FetchError ==
    /\ ~CacheFresh(clock, rate_cache)
    /\ response' = [kind |-> "error", rates |-> NoTable]
    /\ returned' = Fallback
    /\ call_parity' = 1 - call_parity
    /\ UNCHANGED <<clock, rate_cache, last_fetch>>
    /\ UNCHANGED engineVars
    /\ UNCHANGED formVars

NextRates ==
    \/ Tick
    \/ CacheHit
    \/ FetchStore
    \/ FetchEmpty
    \/ FetchError

SpecRates == InitRates /\ [][NextRates]_vars

(***************************************************************************)
(* Quantities the properties speak about.                                  *)
(***************************************************************************)
RECURSIVE SumAmounts(_)
SumAmounts(pay) ==
    IF pay = <<>> THEN 0 ELSE Head(pay).amount + SumAmounts(Tail(pay))

RECURSIVE TotalFrom(_, _)
TotalFrom(person, pay) ==
    IF pay = <<>> THEN 0
    ELSE (IF Head(pay).from = person THEN Head(pay).amount ELSE 0)
         + TotalFrom(person, Tail(pay))

RECURSIVE TotalTo(_, _)
TotalTo(person, pay) ==
    IF pay = <<>> THEN 0
    ELSE (IF Head(pay).to = person THEN Head(pay).amount ELSE 0)
         + TotalTo(person, Tail(pay))

RECURSIVE RoundedCredits(_)
RoundedCredits(rows) ==
    IF rows = <<>> THEN 0
    ELSE (IF Head(rows).net_balance > 0
          THEN Round0(Head(rows).net_balance) ELSE 0)
         + RoundedCredits(Tail(rows))

RECURSIVE RoundedDebts(_)
RoundedDebts(rows) ==
    IF rows = <<>> THEN 0
    ELSE (IF Head(rows).net_balance < 0
          THEN Round0(Abs(Head(rows).net_balance)) ELSE 0)
         + RoundedDebts(Tail(rows))

NumCreditors == Len(SelectRows(summary.rows, TRUE))
NumDebtors == Len(SelectRows(summary.rows, FALSE))

Returned == pc = "done"
HasSummary == ~summary.absent /\ pc \in {"match", "done"}

\* the rounded net balance of a row, signed
RoundedNet(row) ==
    IF row.net_balance > 0 THEN Round0(row.net_balance)
    ELSE IF row.net_balance < 0 THEN 0 - Round0(Abs(row.net_balance))
    ELSE 0

RECURSIVE SumNet(_, _)
SumNet(rows, set) ==
    IF rows = <<>> THEN 0
    ELSE (IF Head(rows).person \in set THEN RoundedNet(Head(rows)) ELSE 0)
         + SumNet(Tail(rows), set)

\* the largest number of disjoint groups of people, each with rounded net
\* balances summing to zero, that the set can be split into
RECURSIVE MaxGroups(_, _)
MaxGroups(rows, set) ==
    IF set = {} THEN 0
    ELSE LET anchor == CHOOSE p \in set : TRUE
             groups == {g \in SUBSET set : anchor \in g /\ SumNet(rows, g) = 0}
             counts == {1 + MaxGroups(rows, set \ g) : g \in groups}
         IN  CHOOSE n \in counts : \A m \in counts : m <= n

\* the least number of transfers that zero every rounded net balance: each
\* zero-sum group of k people needs k - 1 transfers
MinTransfers(rows) ==
    LET owing == {rows[k].person : k \in {j \in 1..Len(rows) :
                                            RoundedNet(rows[j]) # 0}}
    IN  Cardinality(owing) - MaxGroups(rows, owing)

(***************************************************************************)
(* C1. Conservation: when calculate_split returns a summary, the amounts   *)
(* of the returned transfers add up to the sum of the creditors' rounded   *)
(* net balances.                                                           *)
(***************************************************************************)
C1_Conservation ==
    (Returned /\ ~summary.absent) =>
        SumAmounts(payments) = RoundedCredits(summary.rows)

(***************************************************************************)
(* C2. Full settlement: when calculate_split returns a summary, every      *)
(* person's net balance plus what they pay minus what they receive is      *)
(* within 0.01 of zero.                                                    *)
(***************************************************************************)
C2_FullSettlement ==
    (Returned /\ ~summary.absent) =>
        \A k \in 1..Len(summary.rows) :
            LET row == summary.rows[k]
                left == row.net_balance + TotalFrom(row.person, payments)
                        - TotalTo(row.person, payments)
            IN  ~GtTol(Abs(left))

(***************************************************************************)
(* C3. Minimality: when the rounded credits and the rounded debts have the *)
(* same total, the returned list has the least number of transfers that    *)
(* bring every rounded net balance to zero.                                *)
(***************************************************************************)
C3_Minimality ==
    (Returned /\ ~summary.absent
       /\ RoundedCredits(summary.rows) = RoundedDebts(summary.rows)) =>
        Len(payments) = MinTransfers(summary.rows)

(***************************************************************************)
(* C4 as stated. Termination bound: the loop runs at most                  *)
(* (creditors + debtors - 1) iterations.                                   *)
(***************************************************************************)
C4_BoundAsStated ==
    HasSummary => iters <= NumCreditors + NumDebtors - 1

(***************************************************************************)
(* C4. Termination bound, amended: the loop runs at most                   *)
(* max(0, creditors + debtors - 1) iterations, and the iterations run so   *)
(* far plus the entries left in the two work-lists never exceed the        *)
(* number of creditors and debtors (every iteration removes an entry).     *)
(***************************************************************************)
C4_TerminationBound ==
    HasSummary =>
        /\ iters <= Max(0, NumCreditors + NumDebtors - 1)
        /\ iters + Len(creditors_list) + Len(debtors_list)
              <= NumCreditors + NumDebtors
        /\ (creditors_list # <<>> /\ debtors_list # <<>>) => iters < MaxIters

C4_Witness ==
    /\ Returned /\ ~summary.absent
    /\ iters >= 3
    /\ iters = NumCreditors + NumDebtors - 1

(***************************************************************************)
(* C5. Per-person caps: no debtor pays more in total than the rounded      *)
(* magnitude of their net balance, no creditor receives more in total      *)
(* than their rounded net balance.                                         *)
(***************************************************************************)
C5_PerPersonCaps ==
    HasSummary =>
        \A k \in 1..Len(summary.rows) :
            LET row == summary.rows[k]
            IN  /\ row.net_balance < 0 =>
                     TotalFrom(row.person, payments)
                        <= Round0(Abs(row.net_balance))
                /\ row.net_balance > 0 =>
                     TotalTo(row.person, payments) <= Round0(row.net_balance)

C5_Witness ==
    /\ Returned /\ ~summary.absent
    /\ Len(payments) >= 2
    /\ \E k \in 1..Len(summary.rows) :
          /\ summary.rows[k].net_balance < 0
          /\ TotalFrom(summary.rows[k].person, payments) > 0
          /\ TotalFrom(summary.rows[k].person, payments)
                < Round0(Abs(summary.rows[k].net_balance))
    /\ \E k \in 1..Len(summary.rows) :
          /\ summary.rows[k].net_balance > 0
          /\ TotalTo(summary.rows[k].person, payments)
                = Round0(summary.rows[k].net_balance)

(***************************************************************************)
(* C6. Every recorded transfer has a strictly positive amount.             *)
(***************************************************************************)
C6_PositiveAmounts ==
    \A k \in 1..Len(payments) : payments[k].amount > 0

(***************************************************************************)
(* C7. Void events are ignored: the result equals the result on the list   *)
(* without the events that have no participant or an amount <= 0, and      *)
(* when nothing else remains the result is (None, []).                     *)
(***************************************************************************)
VoidEvent(event) == event.participants = {} \/ event.amount <= 0

RECURSIVE WithoutVoid(_)
WithoutVoid(list) ==
    IF list = <<>> THEN <<>>
    ELSE (IF VoidEvent(Head(list)) THEN <<>> ELSE <<Head(list)>>)
         \o WithoutVoid(Tail(list))

C7_VoidIgnored ==
    Returned =>
        /\ <<summary, payments>> = CalculateSplit(WithoutVoid(data), rates)
        /\ WithoutVoid(data) = <<>> => (summary = None /\ payments = <<>>)

C7_Witness ==
    /\ Returned
    /\ ~summary.absent
    /\ payments # <<>>
    /\ \E i \in 1..Len(data) : data[i].participants = {}
    /\ \E i \in 1..Len(data) : ~VoidEvent(data[i])

(***************************************************************************)
(* C8. Rate fallback: the contributions of the event processed last are    *)
(* paid and amount / n unconverted (multiplier 1.0, as for the same event  *)
(* in JPY) when its currency is missing from the table or has rate 0, and  *)
(* are paid / rate and amount / rate / n otherwise.                        *)
(***************************************************************************)
LastContributions(n) ==
    SubSeq(transactions, Len(transactions) - n + 1, Len(transactions))

C8_RateFallback ==
    (idx >= 1 /\ ~VoidEvent(data[idx])) =>
        LET event == data[idx]
            n == Cardinality(event.participants)
            last == LastContributions(n)
            paid(k) == IF last[k].person \in DOMAIN event.paid_by
                       THEN event.paid_by[last[k].person] ELSE 0
        IN  /\ Len(transactions) >= n
            /\ {last[k].person : k \in 1..n} = event.participants
            /\ IF event.currency \notin DOMAIN rates
                  \/ rates[event.currency] = 0
               THEN /\ rate_multiplier = One
                    /\ \A k \in 1..n :
                          /\ last[k].amount_paid = paid(k) * One
                          /\ last[k].amount_owed * n = event.amount * One
                    /\ last = EventContributions(
                                 [event EXCEPT !.currency = "JPY"], rates)
               ELSE /\ rate_multiplier * rates[event.currency] = One * One
                    /\ \A k \in 1..n :
                          /\ last[k].amount_paid * rates[event.currency]
                                = paid(k) * One * One
                          /\ last[k].amount_owed * n * rates[event.currency]
                                = event.amount * One * One

C8_Witness ==
    /\ idx = 2
    /\ ~VoidEvent(data[1]) /\ data[1].currency = "USD"
    /\ ~VoidEvent(data[2]) /\ data[2].currency = "KRW"
    /\ "KRW" \in DOMAIN rates /\ rates["KRW"] = 0
    /\ \E k \in 1..Len(transactions) : transactions[k].amount_paid > 0

(***************************************************************************)
(* C9 as stated. Greedy choice: at the start of every iteration the front  *)
(* of each work-list holds the largest remaining amount of its list.       *)
(***************************************************************************)
FrontIsLargest(list) ==
    \A k \in 1..Len(list) : list[1].amount >= list[k].amount

Descending(list) ==
    \A j, k \in 1..Len(list) : j < k => list[j].amount >= list[k].amount

AtIteration == pc = "match" /\ creditors_list # <<>> /\ debtors_list # <<>>

C9_GreedyAsStated ==
    AtIteration =>
        FrontIsLargest(creditors_list) /\ FrontIsLargest(debtors_list)

(***************************************************************************)
(* C9. Greedy choice, amended: at the start of every iteration the entries *)
(* behind the front of each work-list are in descending order, and the     *)
(* front entry is the largest of its list unless it is the residual the    *)
(* preceding iteration reinserted (which may be smaller than the entries   *)
(* behind it); in the first iteration both fronts are the largest.         *)
(***************************************************************************)
C9_GreedyChoice ==
    AtIteration =>
        /\ Descending(Tail(creditors_list))
        /\ Descending(Tail(debtors_list))
        /\ \/ FrontIsLargest(creditors_list)
           \/ /\ payments # <<>>
              /\ payments[Len(payments)].to = creditors_list[1].person
        /\ \/ FrontIsLargest(debtors_list)
           \/ /\ payments # <<>>
              /\ payments[Len(payments)].from = debtors_list[1].person

C9_Witness ==
    /\ AtIteration
    /\ Len(creditors_list) >= 2
    /\ creditors_list[1].amount < creditors_list[2].amount
    /\ payments[Len(payments)].to = creditors_list[1].person

(***************************************************************************)
(* C10. Recording workflow: every event in the session list has at least   *)
(* one participant, an amount > 0 and paid amounts, one per participant,   *)
(* that sum to the amount; and the list only ever changes by the reset or  *)
(* by appending the form's event while the form satisfies these            *)
(* conditions.                                                             *)
(***************************************************************************)
ValidSaved(event) ==
    /\ event.participants # {}
    /\ event.amount > 0
    /\ DOMAIN event.paid_by = event.participants
    /\ SumOver(event.paid_by, event.participants) = event.amount

FormConditions ==
    /\ participants_select # {}
    /\ amount_input > 0
    /\ DOMAIN paid_widget = participants_select
    /\ SumOver(paid_widget, participants_select) = amount_input

C10_RecordingWorkflow ==
    /\ [](\A i \in 1..Len(events) : ValidSaved(events[i]))
    /\ [][events' # events =>
            \/ events' = <<>>
            \/ /\ FormConditions
               /\ events' = Append(events,
                     [amount |-> amount_input, currency |-> "JPY",
                      participants |-> participants_select,
                      paid_by |-> paid_widget])]_vars

C10_Witness ==
    /\ Len(events) >= 1
    /\ message = "error"
    /\ participants_select # {}
    /\ \E i \in 1..Len(events) : Cardinality(events[i].participants) = 2

(***************************************************************************)
(* C11. Rate cache: a call made less than 30 minutes after the last        *)
(* successful fetch returns that fetch's table and does not ask the        *)
(* provider; every other call asks the provider, and when the answer is an *)
(* error or has no rates the call returns {JPY: 1.0} and leaves the cache  *)
(* as it was; the cache only ever holds the last successful fetch.         *)
(***************************************************************************)
CallStep == call_parity' # call_parity

WithinTtl ==
    last_fetch.present /\ clock < last_fetch.timestamp + CacheMinutes

C11_RateCache ==
    /\ [](rate_cache = last_fetch)
    /\ [][CallStep =>
            IF WithinTtl
            THEN /\ response'.kind = "none"
                 /\ returned' = last_fetch.rates
                 /\ rate_cache' = rate_cache
            ELSE /\ response'.kind # "none"
                 /\ (response'.kind = "error" \/ response'.rates = EmptyMap) =>
                       /\ returned' = [c \in {"JPY"} |-> One]
                       /\ rate_cache' = rate_cache
                 /\ (response'.kind = "ok" /\ response'.rates # EmptyMap) =>
                       /\ returned' = response'.rates
                       /\ rate_cache' = [present |-> TRUE,
                                         rates |-> response'.rates,
                                         timestamp |-> clock]]_vars

C11_Witness ==
    /\ response.kind = "error"
    /\ returned = Fallback
    /\ rate_cache.present
    /\ clock = rate_cache.timestamp + CacheMinutes
    /\ rate_cache.timestamp > 0

====
